---- MODULE Spec2Model ----
(***************************************************************************)
(* Recruitment API (src/app/app.py): FastAPI handlers over a MongoDB        *)
(* database with the collections candidates, admins, jobs, applications.   *)
(*                                                                         *)
(* A collection is the sequence of its documents in insertion (natural)    *)
(* order; a document is a record whose DOMAIN is its set of keys, so an    *)
(* unset key (resume_path, status) is a key that is absent.  Every `await` *)
(* on the store or on the uploaded file is a scheduling point: an action   *)
(* is one store operation together with the handler code that runs up to   *)
(* the next await (or to the response).  Requests run in the slots Procs.  *)
(***************************************************************************)
EXTENDS Integers, Sequences, FiniteSets, TLC

VARIABLES candidates, admins, jobs, applications, files, nextOid, pc, req, out, nreq

vars == <<nreq, pc, req, nextOid, candidates, admins, jobs, applications, files, out>>

store == <<candidates, admins, jobs, applications>>

(* ------------------------------ bounds -------------------------------- *)

\* Requests started in one behaviour.
MaxRequests == 3

\* Request slots: the requests the runtime may have in flight together.
Procs == {1, 2}

(* ------------------------- program constants -------------------------- *)

\* to_list(100): the page cap of every find-many.
ListCap == 100

(* ----------------------------- identifiers ---------------------------- *)

\* ObjectIds the store may hand out, as naturals; str(ObjectId) is StrOfOid.
Oids == 1..(2 * ListCap + MaxRequests + 1)

\* str(ObjectId), tabulated over Oids.
OidStr == [n \in Oids |-> "oid" \o ToString(n)]

StrOfOid(n) == OidStr[n]

OidStrings == {OidStr[n] : n \in Oids}

\* ObjectId(s), tabulated over the strings it accepts.
OidOfStr == [s \in OidStrings |-> CHOOSE n \in Oids : OidStr[n] = s]

\* ObjectId(s) raises InvalidId unless s is the string form of an ObjectId.
ValidOidStr(s) == s \in OidStrings

ObjectId(s) == OidOfStr[s]

\* The first id the store hands out: the seeded candidates hold 1..ListCap and
\* the seeded jobs the ListCap ids after them.
FirstOid == 2 * ListCap + 1

\* Path parameters the requests carry: a string that is no ObjectId, the id of
\* the first seeded candidate or job, and the id the store hands out first.
BadId == "not-an-objectid"

SeededCandidateId == StrOfOid(1)

SeededJobId == StrOfOid(ListCap + 1)

NewId == StrOfOid(FirstOid)

CandidateIdInputs == {BadId, SeededCandidateId, NewId}

JobIdInputs == {BadId, SeededJobId, NewId}

(* ------------------------------- emails ------------------------------- *)

\* The emails the requests carry: one no seeded candidate has, the same with an
\* upper-case domain, and a string that is no email.
SignupRequests ==
    {[email |-> "a@x.com", password |-> "p1", name |-> "A"],
     [email |-> "a@X.COM", password |-> "wrong", name |-> "A"],
     [email |-> "not-an-email", password |-> "p1", name |-> "A"]}

LoginRequests ==
    {[email |-> "a@x.com", password |-> "p1"],
     [email |-> "a@x.com", password |-> "wrong"],
     [email |-> "a@X.COM", password |-> "wrong"],
     [email |-> "not-an-email", password |-> "p1"]}

AdminLoginRequests ==
    {[email |-> "root@x.com", password |-> "p1"],
     [email |-> "root@x.com", password |-> "wrong"],
     [email |-> "a@x.com", password |-> "p1"]}

ApplyRequests ==
    {[job_id |-> BadId, candidate_email |-> "a@x.com"],
     [job_id |-> SeededJobId, candidate_email |-> "a@x.com"],
     [job_id |-> SeededJobId, candidate_email |-> "a@X.COM"],
     [job_id |-> NewId, candidate_email |-> "a@x.com"],
     [job_id |-> SeededJobId, candidate_email |-> "not-an-email"]}

\* EmailStr validation: a string without a domain part is rejected (422).
ValidEmail(raw) == raw # "not-an-email"

\* EmailStr normalisation: the domain part is lower-cased, the local part kept.
NormalizeEmail(raw) == IF raw = "a@X.COM" THEN "a@x.com" ELSE raw

(* ------------------------------ passwords ----------------------------- *)

Salts == {"s1", "s2"}

\* The bcrypt digest of a password under a salt, as an opaque term.
Bcrypt(salt, password) == <<"bcrypt", salt, password>>

\* pwd_context.hash: a fresh salt and the digest under it.
get_password_hash(password, salt) == [salt |-> salt, digest |-> Bcrypt(salt, password)]

\* pwd_context.verify: re-hash the plain password under the stored salt.
verify_password(plain_password, hashed_password) ==
    hashed_password.digest = Bcrypt(hashed_password.salt, plain_password)

(* -------------------------------- jobs -------------------------------- *)

\* Optional[str]: <<>> is None, <<s>> is the string s.
JobA == [title |-> "Engineer", description |-> "Builds", department |-> "R&D",
         location |-> "Pune", employment_type |-> "Full-time",
         salary_range |-> <<"10-20">>, application_deadline |-> <<>>,
         required_skills |-> <<"python", "mongo">>, additional_info |-> <<>>]

JobB == [title |-> "Analyst", description |-> "Reports", department |-> "Ops",
         location |-> "Remote", employment_type |-> "Contract",
         salary_range |-> <<>>, application_deadline |-> <<"2025-01-01">>,
         required_skills |-> <<>>, additional_info |-> <<"urgent">>]

JobInputs == {JobA, JobB}

UpdateJobRequests ==
    {[job_id |-> BadId, job |-> JobA],
     [job_id |-> SeededJobId, job |-> JobA],
     [job_id |-> SeededJobId, job |-> JobB],
     [job_id |-> NewId, job |-> JobA],
     [job_id |-> NewId, job |-> JobB]}

JobFields == {"title", "description", "department", "location", "employment_type",
              "salary_range", "application_deadline", "required_skills",
              "additional_info"}

StatusRequests ==
    {[job_id |-> BadId, status |-> "Open"],
     [job_id |-> SeededJobId, status |-> "Open"],
     [job_id |-> SeededJobId, status |-> "Closed"],
     [job_id |-> SeededJobId, status |-> "Filled"],
     [job_id |-> SeededJobId, status |-> "Pending"],
     [job_id |-> NewId, status |-> "Closed"],
     [job_id |-> NewId, status |-> "Pending"]}

\* Mutant of StatusPattern: the pattern is missing and every string passes.
StatusPatternAny(status) == status = status

\* Query(..., pattern="^(Open|Closed|Filled)$")
StatusPattern(status) == status \in {"Open", "Closed", "Filled"}

(* ------------------------------- uploads ------------------------------ *)

Filenames == {"cv.pdf"}

FileData == {"%PDF"}

(* --------------------------- store operations ------------------------- *)

None == [none |-> TRUE]

IsNone(doc) == "none" \in DOMAIN doc

Min(S) == CHOOSE x \in S : \A y \in S : x <= y

Matches(coll, key, value) ==
    {i \in DOMAIN coll : key \in DOMAIN coll[i] /\ coll[i][key] = value}

\* find_one({key: value}): the first matching document in natural order.
FindOne(coll, key, value) ==
    LET found == Matches(coll, key, value)
    IN  IF found = {} THEN None ELSE coll[Min(found)]

\* Mutant of ToList: the length cap is ignored.
ToListAll(coll, length) == SubSeq(coll, 1, Len(coll) + 0 * length)

\* find().to_list(length)
ToList(coll, length) == SubSeq(coll, 1, IF Len(coll) < length THEN Len(coll) ELSE length)

\* $set: the named keys are written, every other key of the document is kept.
SetFields(doc, fields) ==
    [k \in DOMAIN doc \cup DOMAIN fields |-> IF k \in DOMAIN fields THEN fields[k] ELSE doc[k]]

\* update_one({"_id": oid}, {"$set": fields}): the first match only.
UpdateOne(coll, oid, fields) ==
    LET found == Matches(coll, "_id", oid)
    IN  IF found = {} THEN coll
        ELSE [coll EXCEPT ![Min(found)] = SetFields(@, fields)]

MatchedCount(coll, oid) == IF Matches(coll, "_id", oid) = {} THEN 0 ELSE 1

\* insert_one: the document gets a fresh _id and goes last.
InsertOne(coll, oid, doc) == Append(coll, SetFields(doc, [_id |-> oid]))

(* ------------------------------ responses ----------------------------- *)

HTTPException(status_code, detail) == [status |-> status_code, body |-> [detail |-> detail]]

Ok(body) == [status |-> 200, body |-> body]

\* FastAPI's answer to a parameter that fails validation.
ValidationError == [status |-> 422, body |-> [detail |-> "validation error"]]

\* An exception no handler catches (bson.errors.InvalidId).
ServerError == [status |-> 500, body |-> [detail |-> "Internal Server Error"]]

CandidateResponse(candidate) ==
    [id |-> StrOfOid(candidate._id), email |-> candidate.email, name |-> candidate.name]

\* Mutant of JobResponse: salary_range and application_deadline are swapped.
JobResponseSwapped(id, job) ==
    [k \in JobFields \cup {"id"} |->
        IF k = "id" THEN id
        ELSE IF k = "salary_range" THEN job.application_deadline
        ELSE IF k = "application_deadline" THEN job.salary_range
        ELSE job[k]]

\* JobResponse(id=str(job["_id"]), **job): the nine Job keys, every other key ignored.
JobResponse(id, job) ==
    [k \in JobFields \cup {"id"} |-> IF k = "id" THEN id ELSE job[k]]

Map(f(_), s) == [i \in DOMAIN s |-> f(s[i])]

ResumeEntry(candidate) == [email |-> candidate.email, resume_path |-> candidate.resume_path]

HasResume(candidate) == "resume_path" \in DOMAIN candidate

JobItem(job) == JobResponse(StrOfOid(job._id), job)

(* ------------------------------ fixtures ------------------------------ *)

\* The database outlives the process: the service starts on an empty database,
\* or on one that earlier runs filled with ListCap candidates (every second one
\* with a resume) or with ListCap jobs (every third one with a status).
SeedCandidate(i) ==
    LET base == [_id |-> i, email |-> "c" \o ToString(i) \o "@x.com", name |-> "C",
                 hashed_password |-> get_password_hash("p1", "s1")]
    IN  IF i % 2 = 0
        THEN SetFields(base, [resume_path |-> "resumes/" \o StrOfOid(i) \o "_cv.pdf"])
        ELSE base

SeedJob(i) ==
    LET base == SetFields(IF i % 2 = 0 THEN JobA ELSE JobB, [_id |-> ListCap + i])
    IN  IF i % 3 = 0 THEN SetFields(base, [status |-> "Open"]) ELSE base

SeedAdmins == <<[_id |-> 0, email |-> "root@x.com",
                 hashed_password |-> get_password_hash("p1", "s1")]>>

Fixtures == {"empty", "candidates", "jobs"}

Init ==
    \E fx \in Fixtures :
        /\ candidates = IF fx = "candidates" THEN [i \in 1..ListCap |-> SeedCandidate(i)] ELSE <<>>
        /\ jobs = IF fx = "jobs" THEN [i \in 1..ListCap |-> SeedJob(i)] ELSE <<>>
        /\ admins = SeedAdmins
        /\ applications = <<>>
        /\ files = IF fx = "candidates"
                   THEN [path \in {SeedCandidate(i).resume_path :
                                     i \in {j \in 1..ListCap : j % 2 = 0}} |-> "%PDF"]
                   ELSE [path \in {} |-> ""]
        /\ nextOid = FirstOid
        /\ pc = [p \in Procs |-> "idle"]
        /\ req = [p \in Procs |-> None]
        /\ out = [op |-> "none", args |-> None, status |-> 0, body |-> None]
        /\ nreq = 0

(* ------------------------------ plumbing ------------------------------ *)

\* A request arrives and takes the first idle slot.
Arrive(p) ==
    /\ pc[p] = "idle"
    /\ \A q \in Procs : q < p => pc[q] # "idle"
    /\ nreq < MaxRequests
    /\ nreq' = nreq + 1

\* The response to the request (op, args) goes out and the slot is free again.
Respond(p, op, args, response) ==
    /\ out' = [op |-> op, args |-> args, status |-> response.status, body |-> response.body]
    /\ pc' = [pc EXCEPT ![p] = "idle"]
    /\ req' = [req EXCEPT ![p] = None]

\* The handler suspends at its next await, keeping its arguments and locals.
Await(p, label, locals) ==
    /\ pc' = [pc EXCEPT ![p] = label]
    /\ req' = [req EXCEPT ![p] = locals]
    /\ UNCHANGED out

(* ------------------------------- handlers ----------------------------- *)

\* GET /
root(p) ==
    /\ Arrive(p)
    /\ Respond(p, "root", None, Ok([message |-> "Welcome to the Recruitment System API"]))
    /\ UNCHANGED <<candidates, admins, jobs, applications, files, nextOid>>

\* Mutant of signup: the find_one by email is missing.
signup_nocheck(p) ==
    /\ Arrive(p)
    /\ \E args \in SignupRequests :
         LET candidate == [args EXCEPT !.email = NormalizeEmail(args.email)]
         IN  IF ~ValidEmail(args.email) THEN Respond(p, "signup", args, ValidationError)
             ELSE Await(p, "signup_insert", [args |-> args, candidate |-> candidate])
    /\ UNCHANGED <<candidates, admins, jobs, applications, files, nextOid>>

\* POST /candidates/signup, up to the insert: the find_one by email.
signup(p) ==
    /\ Arrive(p)
    /\ \E args \in SignupRequests :
         LET candidate == [args EXCEPT !.email = NormalizeEmail(args.email)]
         IN  IF ~ValidEmail(args.email) THEN Respond(p, "signup", args, ValidationError)
             ELSE IF ~IsNone(FindOne(candidates, "email", candidate.email))
             THEN Respond(p, "signup", args, HTTPException(400, "Email already registered"))
             ELSE Await(p, "signup_insert", [args |-> args, candidate |-> candidate])
    /\ UNCHANGED <<candidates, admins, jobs, applications, files, nextOid>>

\* signup, the rest: hash, insert_one, respond.
signup_insert(p) ==
    /\ pc[p] = "signup_insert"
    /\ \E salt \in Salts :
         LET candidate == req[p].candidate
             hashed_password == get_password_hash(candidate.password, salt)
             doc == [email |-> candidate.email, name |-> candidate.name,
                     hashed_password |-> hashed_password]
         IN  /\ candidates' = InsertOne(candidates, nextOid, doc)
             /\ nextOid' = nextOid + 1
             /\ Respond(p, "signup", req[p].args,
                        Ok([id |-> StrOfOid(nextOid), email |-> candidate.email,
                            name |-> candidate.name]))
    /\ UNCHANGED <<admins, jobs, applications, files, nreq>>

\* POST /candidates/login
login(p) ==
    /\ Arrive(p)
    /\ \E args \in LoginRequests :
         LET candidate == FindOne(candidates, "email", NormalizeEmail(args.email))
         IN  IF ~ValidEmail(args.email) THEN Respond(p, "login", args, ValidationError)
             ELSE IF \/ IsNone(candidate)
                     \/ ~verify_password(args.password, candidate.hashed_password)
             THEN Respond(p, "login", args, HTTPException(400, "Invalid email or password"))
             ELSE Respond(p, "login", args, Ok([message |-> "Login successful"]))
    /\ UNCHANGED <<candidates, admins, jobs, applications, files, nextOid>>

\* POST /jobs/{job_id}/apply, up to the candidate lookup: the find_one of the job.
apply_for_job(p) ==
    /\ Arrive(p)
    /\ \E args \in ApplyRequests :
         LET job_id == args.job_id
             raw == args.candidate_email
         IN  IF ~ValidEmail(raw) THEN Respond(p, "apply_for_job", args, ValidationError)
             ELSE IF ~ValidOidStr(job_id) THEN Respond(p, "apply_for_job", args, ServerError)
             ELSE IF IsNone(FindOne(jobs, "_id", ObjectId(job_id)))
             THEN Respond(p, "apply_for_job", args, HTTPException(404, "Job not found"))
             ELSE Await(p, "apply_find_candidate",
                        [args |-> args, job_id |-> job_id,
                         candidate_email |-> NormalizeEmail(raw)])
    /\ UNCHANGED <<candidates, admins, jobs, applications, files, nextOid>>

\* Mutant of apply_find_candidate: the candidate is not looked up.
apply_find_candidate_nocheck(p) ==
    /\ pc[p] = "apply_find_candidate"
    /\ Await(p, "apply_insert", req[p])
    /\ UNCHANGED <<candidates, admins, jobs, applications, files, nextOid, nreq>>

\* apply_for_job: the find_one of the candidate.
apply_find_candidate(p) ==
    /\ pc[p] = "apply_find_candidate"
    /\ IF IsNone(FindOne(candidates, "email", req[p].candidate_email))
       THEN Respond(p, "apply_for_job", req[p].args,
                    HTTPException(404, "Candidate not found"))
       ELSE Await(p, "apply_insert", req[p])
    /\ UNCHANGED <<candidates, admins, jobs, applications, files, nextOid, nreq>>

\* Mutant of apply_insert: the email is stored as sent, not as validated.
apply_insert_raw(p) ==
    /\ pc[p] = "apply_insert"
    /\ applications' = InsertOne(applications, nextOid,
                                 [job_id |-> ObjectId(req[p].job_id),
                                  candidate_email |-> req[p].args.candidate_email])
    /\ nextOid' = nextOid + 1
    /\ Respond(p, "apply_for_job", req[p].args, Ok([message |-> "Job application successful"]))
    /\ UNCHANGED <<candidates, admins, jobs, files, nreq>>

\* apply_for_job: the insert_one of the application.
apply_insert(p) ==
    /\ pc[p] = "apply_insert"
    /\ applications' = InsertOne(applications, nextOid,
                                 [job_id |-> ObjectId(req[p].job_id),
                                  candidate_email |-> req[p].candidate_email])
    /\ nextOid' = nextOid + 1
    /\ Respond(p, "apply_for_job", req[p].args, Ok([message |-> "Job application successful"]))
    /\ UNCHANGED <<candidates, admins, jobs, files, nreq>>

\* POST /candidates/{candidate_id}/resume, up to file.read(): the find_one, then
\* open(resume_path, "wb"), which creates or truncates the file.
upload_resume(p) ==
    /\ Arrive(p)
    /\ \E candidate_id \in CandidateIdInputs, filename \in Filenames, data \in FileData :
         LET args == [candidate_id |-> candidate_id, filename |-> filename]
             resume_path == "resumes/" \o candidate_id \o "_" \o filename
         IN  IF ~ValidOidStr(candidate_id)
             THEN Respond(p, "upload_resume", args, ServerError) /\ UNCHANGED files
             ELSE IF IsNone(FindOne(candidates, "_id", ObjectId(candidate_id)))
             THEN /\ Respond(p, "upload_resume", args,
                             HTTPException(404, "Candidate not found"))
                  /\ UNCHANGED files
             ELSE /\ files' = [path \in DOMAIN files \cup {resume_path} |->
                                  IF path = resume_path THEN "" ELSE files[path]]
                  /\ Await(p, "upload_write",
                           [args |-> args, candidate_id |-> candidate_id,
                            resume_path |-> resume_path, data |-> data])
    /\ UNCHANGED <<candidates, admins, jobs, applications, nextOid>>

\* upload_resume: file.read() returns, the bytes are written and the file closed.
upload_write(p) ==
    /\ pc[p] = "upload_write"
    /\ files' = [path \in DOMAIN files \cup {req[p].resume_path} |->
                    IF path = req[p].resume_path THEN req[p].data ELSE files[path]]
    /\ Await(p, "upload_update", req[p])
    /\ UNCHANGED <<candidates, admins, jobs, applications, nextOid, nreq>>

\* upload_resume: the update_one that sets resume_path.
upload_update(p) ==
    /\ pc[p] = "upload_update"
    /\ candidates' = UpdateOne(candidates, ObjectId(req[p].candidate_id),
                               [resume_path |-> req[p].resume_path])
    /\ Respond(p, "upload_resume", req[p].args,
               Ok([message |-> "Resume uploaded successfully"]))
    /\ UNCHANGED <<admins, jobs, applications, files, nextOid, nreq>>

\* POST /admin/login
admin_login(p) ==
    /\ Arrive(p)
    /\ \E args \in AdminLoginRequests :
         LET admin == FindOne(admins, "email", NormalizeEmail(args.email))
         IN  IF IsNone(admin) \/ ~verify_password(args.password, admin.hashed_password)
             THEN Respond(p, "admin_login", args,
                          HTTPException(400, "Invalid email or password"))
             ELSE Respond(p, "admin_login", args, Ok([message |-> "Admin login successful"]))
    /\ UNCHANGED <<candidates, admins, jobs, applications, files, nextOid>>

\* GET /admin/candidates
view_candidates(p) ==
    /\ Arrive(p)
    /\ Respond(p, "view_candidates", None,
               Ok(Map(CandidateResponse, ToList(candidates, ListCap))))
    /\ UNCHANGED <<candidates, admins, jobs, applications, files, nextOid>>

\* GET /admin/resumes
view_resumes(p) ==
    /\ Arrive(p)
    /\ Respond(p, "view_resumes", None,
               Ok(Map(ResumeEntry, SelectSeq(ToList(candidates, ListCap), HasResume))))
    /\ UNCHANGED <<candidates, admins, jobs, applications, files, nextOid>>

\* GET /jobs
get_jobs(p) ==
    /\ Arrive(p)
    /\ Respond(p, "get_jobs", None, Ok(Map(JobItem, ToList(jobs, ListCap))))
    /\ UNCHANGED <<candidates, admins, jobs, applications, files, nextOid>>

\* GET /jobs/{job_id}
get_job(p) ==
    /\ Arrive(p)
    /\ \E job_id \in JobIdInputs :
         LET args == [job_id |-> job_id]
         IN  IF ~ValidOidStr(job_id) THEN Respond(p, "get_job", args, ServerError)
             ELSE LET job == FindOne(jobs, "_id", ObjectId(job_id))
                  IN  IF IsNone(job)
                      THEN Respond(p, "get_job", args, HTTPException(404, "Job not found"))
                      ELSE Respond(p, "get_job", args, Ok(JobItem(job)))
    /\ UNCHANGED <<candidates, admins, jobs, applications, files, nextOid>>

\* POST /jobs
post_job(p) ==
    /\ Arrive(p)
    /\ \E job \in JobInputs :
         /\ jobs' = InsertOne(jobs, nextOid, job)
         /\ Respond(p, "post_job", [job |-> job], Ok(JobResponse(StrOfOid(nextOid), job)))
    /\ nextOid' = nextOid + 1
    /\ UNCHANGED <<candidates, admins, applications, files>>

\* Mutant of update_job: the document is replaced (replace_one) instead of $set.
update_job_replace(p) ==
    /\ Arrive(p)
    /\ \E args \in UpdateJobRequests :
         LET job_id == args.job_id
             job == args.job
         IN  IF ~ValidOidStr(job_id)
             THEN Respond(p, "update_job", args, ServerError) /\ UNCHANGED jobs
             ELSE /\ jobs' = [i \in DOMAIN jobs |->
                                IF jobs[i]._id = ObjectId(job_id)
                                THEN SetFields([_id |-> jobs[i]._id], job)
                                ELSE jobs[i]]
                  /\ IF MatchedCount(jobs, ObjectId(job_id)) = 0
                     THEN Respond(p, "update_job", args, HTTPException(404, "Job not found"))
                     ELSE Respond(p, "update_job", args, Ok(JobResponse(job_id, job)))
    /\ UNCHANGED <<candidates, admins, applications, files, nextOid>>

\* PUT /jobs/{job_id}
update_job(p) ==
    /\ Arrive(p)
    /\ \E args \in UpdateJobRequests :
         LET job_id == args.job_id
             job == args.job
         IN  IF ~ValidOidStr(job_id)
             THEN Respond(p, "update_job", args, ServerError) /\ UNCHANGED jobs
             ELSE /\ jobs' = UpdateOne(jobs, ObjectId(job_id), job)
                  /\ IF MatchedCount(jobs, ObjectId(job_id)) = 0
                     THEN Respond(p, "update_job", args, HTTPException(404, "Job not found"))
                     ELSE Respond(p, "update_job", args, Ok(JobResponse(job_id, job)))
    /\ UNCHANGED <<candidates, admins, applications, files, nextOid>>

\* PUT /jobs/{job_id}/status
update_job_status(p) ==
    /\ Arrive(p)
    /\ \E args \in StatusRequests :
         LET job_id == args.job_id
             status == args.status
         IN  IF ~StatusPattern(status)
             THEN Respond(p, "update_job_status", args, ValidationError) /\ UNCHANGED jobs
             ELSE IF ~ValidOidStr(job_id)
             THEN Respond(p, "update_job_status", args, ServerError) /\ UNCHANGED jobs
             ELSE /\ jobs' = UpdateOne(jobs, ObjectId(job_id), [status |-> status])
                  /\ IF MatchedCount(jobs, ObjectId(job_id)) = 0
                     THEN Respond(p, "update_job_status", args,
                                  HTTPException(404, "Job not found"))
                     ELSE Respond(p, "update_job_status", args,
                                  Ok([message |-> "Job status updated to " \o status]))
    /\ UNCHANGED <<candidates, admins, applications, files, nextOid>>

\* GET /candidates
get_candidates(p) ==
    /\ Arrive(p)
    /\ Respond(p, "get_candidates", None,
               Ok(Map(CandidateResponse, ToList(candidates, ListCap))))
    /\ UNCHANGED <<candidates, admins, jobs, applications, files, nextOid>>

\* GET /candidates/{candidate_id}
get_candidate(p) ==
    /\ Arrive(p)
    /\ \E candidate_id \in CandidateIdInputs :
         LET args == [candidate_id |-> candidate_id]
         IN  IF ~ValidOidStr(candidate_id)
             THEN Respond(p, "get_candidate", args, ServerError)
             ELSE LET candidate == FindOne(candidates, "_id", ObjectId(candidate_id))
                  IN  IF IsNone(candidate)
                      THEN Respond(p, "get_candidate", args,
                                   HTTPException(404, "Candidate not found"))
                      ELSE Respond(p, "get_candidate", args, Ok(CandidateResponse(candidate)))
    /\ UNCHANGED <<candidates, admins, jobs, applications, files, nextOid>>

(* --------------------------- specifications --------------------------- *)

Step(p) ==
    \/ root(p)
    \/ signup(p)
    \/ signup_insert(p)
    \/ login(p)
    \/ apply_for_job(p)
    \/ apply_find_candidate(p)
    \/ apply_insert(p)
    \/ upload_resume(p)
    \/ upload_write(p)
    \/ upload_update(p)
    \/ admin_login(p)
    \/ view_candidates(p)
    \/ view_resumes(p)
    \/ get_jobs(p)
    \/ get_job(p)
    \/ post_job(p)
    \/ update_job(p)
    \/ update_job_status(p)
    \/ get_candidates(p)
    \/ get_candidate(p)

\* Requests are served concurrently: any slot may take its next step.
Next == \E p \in Procs : Step(p)

Spec == Init /\ [][Next]_vars

\* Every other slot is idle.
Alone(p) == \A q \in Procs \ {p} : pc[q] = "idle"

\* Requests one after the other: a slot steps only while every other slot is idle.
SeqStep(p) ==
    \/ Alone(p) /\ root(p)
    \/ Alone(p) /\ signup(p)
    \/ Alone(p) /\ signup_insert(p)
    \/ Alone(p) /\ login(p)
    \/ Alone(p) /\ apply_for_job(p)
    \/ Alone(p) /\ apply_find_candidate(p)
    \/ Alone(p) /\ apply_insert(p)
    \/ Alone(p) /\ upload_resume(p)
    \/ Alone(p) /\ upload_write(p)
    \/ Alone(p) /\ upload_update(p)
    \/ Alone(p) /\ admin_login(p)
    \/ Alone(p) /\ view_candidates(p)
    \/ Alone(p) /\ view_resumes(p)
    \/ Alone(p) /\ get_jobs(p)
    \/ Alone(p) /\ get_job(p)
    \/ Alone(p) /\ post_job(p)
    \/ Alone(p) /\ update_job(p)
    \/ Alone(p) /\ update_job_status(p)
    \/ Alone(p) /\ get_candidates(p)
    \/ Alone(p) /\ get_candidate(p)

SeqNext == \E p \in Procs : SeqStep(p)

SeqSpec == Init /\ [][SeqNext]_vars

(* ------------------------------ vocabulary ---------------------------- *)

\* The step answers a request: a request arrived and was answered at once, or a
\* suspended handler finished.  out' is then the response of that request.
Answered ==
    \/ nreq' = nreq + 1 /\ pc' = pc
    \/ \E p \in Procs : pc[p] # "idle" /\ pc'[p] = "idle"

AnsweredOp(op) == Answered /\ out'.op = op

Emails(coll) == {coll[i].email : i \in DOMAIN coll}

Ids(coll) == {coll[i]._id : i \in DOMAIN coll}

EmailCount(coll, e) == Cardinality({i \in DOMAIN coll : coll[i].email = e})

\* The document of coll with this _id (there is one).
DocOf(coll, oid) == coll[CHOOSE i \in DOMAIN coll : coll[i]._id = oid]

Detail(d) == out'.body = [detail |-> d]

(* -------------------------------- C1 ---------------------------------- *)

\* C1: in every reachable state no two stored candidate documents have the same
\* email, with requests served concurrently.
C1_UniqueEmails == Cardinality(Emails(candidates)) = Len(candidates)

(* -------------------------------- C2 ---------------------------------- *)

\* C2: with requests served one after the other, a signup whose email is
\* already stored is answered 400 "Email already registered" and leaves the
\* candidates unchanged; a signup whose email is not stored is answered 200 and
\* stores one candidate; either way exactly one candidate has that email after.
C2_SequentialSignup ==
    [][AnsweredOp("signup") /\ ValidEmail(out'.args.email) =>
         LET e == NormalizeEmail(out'.args.email)
         IN  /\ IF e \in Emails(candidates)
                THEN out'.status = 400 /\ Detail("Email already registered")
                     /\ candidates' = candidates
                ELSE out'.status = 200
                     /\ Len(candidates') = Len(candidates) + 1
                     /\ SubSeq(candidates', 1, Len(candidates)) = candidates
                     /\ candidates'[Len(candidates')].email = e
             /\ EmailCount(candidates', e) = 1]_vars

\* A second signup with a@x.com was just refused, after the first stored it.
C2_Witness ==
    /\ out.op = "signup" /\ out.status = 400
    /\ out.body = [detail |-> "Email already registered"]
    /\ EmailCount(candidates, "a@x.com") = 1
    /\ FirstOid \in Ids(candidates)

(* -------------------------------- C3 ---------------------------------- *)

\* C3: a login is answered 200 iff some stored candidate has that email and a
\* hash the password verifies against (so: after a successful Signup(e, p),
\* Login(e, p) succeeds); otherwise it is answered 400 "Invalid email or
\* password"; and it changes no collection.
C3_LoginIffStoredAndVerified ==
    [][AnsweredOp("login") /\ ValidEmail(out'.args.email) =>
         LET e == NormalizeEmail(out'.args.email)
             ok == \E i \in DOMAIN candidates :
                      /\ candidates[i].email = e
                      /\ verify_password(out'.args.password, candidates[i].hashed_password)
         IN  /\ out'.status = 200 <=> ok
             /\ out'.status # 200 => out'.status = 400 /\ Detail("Invalid email or password")
             /\ store' = store]_vars

(* -------------------------------- C4 ---------------------------------- *)

JobStored(job_id) == ValidOidStr(job_id) /\ ObjectId(job_id) \in Ids(jobs)

\* No step but a successful apply changes the applications.
ApplicationsFrame ==
    ~(AnsweredOp("apply_for_job") /\ out'.status = 200) => applications' = applications

\* The apply that was just answered inserted exactly one record {job_id, candidate_email}.
ApplyInserted ==
    /\ out'.status = 200
    /\ Len(applications') = Len(applications) + 1
    /\ SubSeq(applications', 1, Len(applications)) = applications
    /\ LET a == applications'[Len(applications')]
       IN  /\ a.job_id = ObjectId(out'.args.job_id)
           /\ a.candidate_email = NormalizeEmail(out'.args.candidate_email)
           /\ DOMAIN a = {"_id", "job_id", "candidate_email"}

ApplyRefused(d) == out'.status = 404 /\ Detail(d) /\ applications' = applications

StatusValues == {"Open", "Closed", "Filled"}

\* Every stored job's status is unset or one of Open, Closed, Filled.
StatusInvariant ==
    \A i \in DOMAIN jobs : "status" \in DOMAIN jobs[i] => jobs[i].status \in StatusValues

\* The status update that was just answered set the status of the one job with
\* this id and changed nothing else.
StatusWritten ==
    LET oid == ObjectId(out'.args.job_id)
    IN  /\ out'.status = 200
        /\ Len(jobs') = Len(jobs)
        /\ \A i \in DOMAIN jobs :
             IF jobs[i]._id = oid
             THEN /\ jobs'[i].status = out'.args.status
                  /\ DOMAIN jobs'[i] = DOMAIN jobs[i] \cup {"status"}
                  /\ \A k \in DOMAIN jobs[i] \ {"status"} : jobs'[i][k] = jobs[i][k]
             ELSE jobs'[i] = jobs[i]

C6_ViewResumesAll ==
    [][AnsweredOp("view_resumes") =>
         /\ out'.status = 200
         /\ out'.body = Map(ResumeEntry, SelectSeq(candidates, HasResume))]_vars

(* -------------------------------- C7 ---------------------------------- *)

ListOps == {"get_jobs", "get_candidates", "view_candidates", "view_resumes"}

\* What a list endpoint returns when nothing is cut off.
FullList(op) ==
    IF op = "get_jobs" THEN Map(JobItem, jobs)
    ELSE IF op = "view_resumes" THEN Map(ResumeEntry, SelectSeq(candidates, HasResume))
    ELSE Map(CandidateResponse, candidates)

Listed(op) == IF op = "get_jobs" THEN jobs ELSE candidates

\* C7: every list endpoint returns at most 100 items, and all of them when the
\* collection holds 100 documents or fewer.
C7_ListCap ==
    [][Answered /\ out'.op \in ListOps =>
         /\ out'.status = 200
         /\ Len(out'.body) <= 100
         /\ Len(Listed(out'.op)) <= 100 => out'.body = FullList(out'.op)]_vars

\* A list of exactly 100 items was just returned from a collection of more.
C7_Witness ==
    /\ out.op \in ListOps /\ out.status = 200
    /\ Len(Listed(out.op)) > 100
    /\ Len(out.body) = 100

(* -------------------------------- C8 ---------------------------------- *)

\* The nine Job fields of a stored job change only by an UpdateJob on its id.
JobFieldsFrame ==
    \/ jobs' = jobs
    \/ /\ Len(jobs') >= Len(jobs)
       /\ \A i \in DOMAIN jobs :
            /\ jobs'[i]._id = jobs[i]._id
            /\ ~(/\ AnsweredOp("update_job") /\ out'.status = 200
                 /\ jobs[i]._id = ObjectId(out'.args.job_id)) =>
                 \A k \in JobFields : jobs'[i][k] = jobs[i][k]

\* The id, email and name of a stored candidate never change.
CandidateFieldsFrame ==
    \/ candidates' = candidates
    \/ /\ Len(candidates') >= Len(candidates)
       /\ \A i \in DOMAIN candidates :
            /\ candidates'[i]._id = candidates[i]._id
            /\ candidates'[i].email = candidates[i].email
            /\ candidates'[i].name = candidates[i].name

\* C8: GetJob and GetCandidate on a well-formed id answer 404 when no document
\* has it and otherwise return the stored field values; these are the values
\* last written: CreateJob and UpdateJob store the nine fields they are given
\* under the id they return, Signup stores the email and name it returns, and
\* no other step changes them.  Neither read changes a collection.
C8_GetReturnsStored ==
    [][/\ JobFieldsFrame
       /\ CandidateFieldsFrame
       /\ AnsweredOp("get_job") /\ ValidOidStr(out'.args.job_id) =>
            /\ store' = store
            /\ IF ObjectId(out'.args.job_id) \notin Ids(jobs)
               THEN out'.status = 404 /\ Detail("Job not found")
               ELSE /\ out'.status = 200
                    /\ out'.body.id = out'.args.job_id
                    /\ DOMAIN out'.body = JobFields \cup {"id"}
                    /\ \A k \in JobFields :
                         out'.body[k] = DocOf(jobs, ObjectId(out'.args.job_id))[k]
       /\ AnsweredOp("get_candidate") /\ ValidOidStr(out'.args.candidate_id) =>
            /\ store' = store
            /\ IF ObjectId(out'.args.candidate_id) \notin Ids(candidates)
               THEN out'.status = 404 /\ Detail("Candidate not found")
               ELSE LET c == DocOf(candidates, ObjectId(out'.args.candidate_id))
                    IN  /\ out'.status = 200
                        /\ out'.body = [id |-> out'.args.candidate_id,
                                        email |-> c.email, name |-> c.name]
       /\ AnsweredOp("post_job") =>
            /\ out'.status = 200
            /\ Len(jobs') = Len(jobs) + 1
            /\ ValidOidStr(out'.body.id)
            /\ ObjectId(out'.body.id) \notin Ids(jobs)
            /\ jobs'[Len(jobs')]._id = ObjectId(out'.body.id)
            /\ \A k \in JobFields :
                 /\ jobs'[Len(jobs')][k] = out'.args.job[k]
                 /\ out'.body[k] = out'.args.job[k]
       /\ AnsweredOp("update_job") /\ out'.status = 200 =>
            /\ out'.body.id = out'.args.job_id
            /\ \A k \in JobFields :
                 /\ DocOf(jobs', ObjectId(out'.args.job_id))[k] = out'.args.job[k]
                 /\ out'.body[k] = out'.args.job[k]
       /\ AnsweredOp("signup") /\ out'.status = 200 =>
            /\ Len(candidates') = Len(candidates) + 1
            /\ ObjectId(out'.body.id) \notin Ids(candidates)
            /\ LET c == candidates'[Len(candidates')]
               IN  out'.body = [id |-> StrOfOid(c._id), email |-> c.email, name |-> c.name]
      ]_vars

\* GetJob just returned the job that an earlier CreateJob or UpdateJob wrote as JobB.
C8_Witness ==
    /\ out.op = "get_job" /\ out.status = 200
    /\ out.args.job_id = StrOfOid(FirstOid)
    /\ \A k \in JobFields : out.body[k] = JobB[k]

(* -------------------------------- C9 ---------------------------------- *)

\* The update that was just answered replaced the nine Job fields of the one
\* job with this id and kept its other keys and every other job.
JobReplaced ==
    LET oid == ObjectId(out'.args.job_id)
    IN  /\ out'.status = 200
        /\ Len(jobs') = Len(jobs)
        /\ \A i \in DOMAIN jobs :
             IF jobs[i]._id = oid
             THEN /\ DOMAIN jobs'[i] = DOMAIN jobs[i]
                  /\ \A k \in JobFields : jobs'[i][k] = out'.args.job[k]
                  /\ \A k \in DOMAIN jobs[i] \ JobFields : jobs'[i][k] = jobs[i][k]
             ELSE jobs'[i] = jobs[i]

OthersUnchanged == UNCHANGED <<candidates, admins, applications>>

C10_ReferentialIntegrity ==
    \A i \in DOMAIN applications :
        /\ applications[i].job_id \in Ids(jobs)
        /\ applications[i].candidate_email \in Emails(candidates)

\* An application is stored while another request is in flight.
C10_Witness ==
    /\ Len(applications) > 0
    /\ \E p \in Procs : pc[p] # "idle"

====
